---- MODULE Spec2Model ----
(***************************************************************************)
(* Model of src/js/dijkstra.js: the weight initializer initEdgeWeights and *)
(* the shortest-path solver dijkstra.                                      *)
(*                                                                         *)
(* Numbers are fixed-point with one decimal: a flow coefficient of 0.2 is  *)
(* the integer 2 and a weight of 1.2 is the integer 12.  Distances are     *)
(* plain integers; a weight produced by initEdgeWeights is                 *)
(* distance * (10 + coefficient), i.e. ten times the real weight.          *)
(***************************************************************************)
EXTENDS Integers, Sequences, FiniteSets, TLC

\* ------------------------------------------------------------- bounds
\* Number of nodes of the graphs handed directly to the solver.
NumNodes == 3
\* Longest edge list of any graph.
MaxEdges == 2

\* ------------------------------------------------------ JS values
\* Infinity, null and undefined, encoded as integers outside the ranges of
\* node ids (1..), distances, coefficients and weights (all >= 0).
Infinity == -1
Null == 0
Undefined == -2

\* 1 in "1 + flowRate" and the default flowRate 0.2, in tenths.
One == 10
DefaultFlowRate == 2

\* a < b for a, b non-negative numbers or Infinity.
Lt(a, b) == a # Infinity /\ (b = Infinity \/ a < b)

\* a + b for a, b non-negative numbers or Infinity.
Plus(a, b) == IF a = Infinity \/ b = Infinity THEN Infinity ELSE a + b

\* A value that `||` replaces by its right operand: undefined or 0.
Falsy(v) == v = Undefined \/ v = 0

\* ------------------------------------------------------ input domain
Periods == {"morning", "evening"}

\* edge.flow of an edge that has no flow mapping at all.
NoFlow == [undefined |-> TRUE]

\* Flow coefficients of the raw graphs: 0, 0.1 and 2.0.
Coefficients == {0, 1, 20}

\* Flow mappings of the raw graphs: none, or a coefficient for the morning
\* and no entry for the evening.
FlowMaps == {NoFlow} \cup {[morning |-> c, evening |-> Undefined] : c \in Coefficients}

\* A flow mapping without entries (edges handed directly to the solver).
EmptyFlow == [morning |-> Undefined, evening |-> Undefined]

Node(i) == [id |-> i, x |-> 10 * i]

NodeList(n) == [i \in 1..n |-> Node(i)]

\* Node ids of the raw graphs handed to initEdgeWeights.
RawIds == {1, 2}

RawEdges ==
  [from : RawIds, to : RawIds, distance : {1, 2}, flow : FlowMaps, weight : {Undefined}]

\* Edges that already carry a weight (0 or 0.1), for the solver alone.
WeightedEdges ==
  [from : 1..NumNodes, to : 1..NumNodes, distance : {1}, flow : {EmptyFlow}, weight : {0, 1}]

EdgeLists(E) == UNION {[1..n -> E] : n \in 0..MaxEdges}

RawGraphs == {[nodes |-> NodeList(Cardinality(RawIds)), edges |-> es] : es \in EdgeLists(RawEdges)}

WeightedGraphs == {[nodes |-> NodeList(NumNodes), edges |-> es] : es \in EdgeLists(WeightedEdges)}

EmptyGraph == [nodes |-> << >>, edges |-> << >>]

\* ------------------------------------------------------ initEdgeWeights
\* JSON.parse(JSON.stringify(graph)): a new object built field by field;
\* a property whose value is undefined is dropped, i.e. stays undefined.
CloneNode(node) == [id |-> node.id, x |-> node.x]

CloneFlow(flow) ==
  IF flow = NoFlow THEN NoFlow ELSE [morning |-> flow.morning, evening |-> flow.evening]

CloneEdge(edge) ==
  [from |-> edge.from, to |-> edge.to, distance |-> edge.distance,
   flow |-> CloneFlow(edge.flow), weight |-> edge.weight]

JSONCopy(graph) ==
  [nodes |-> [i \in 1..Len(graph.nodes) |-> CloneNode(graph.nodes[i])],
   edges |-> [i \in 1..Len(graph.edges) |-> CloneEdge(graph.edges[i])]]

\* Variant of CloneRef: updatedGraph names the caller's object (no copy made).
CloneRefAlias(ref) == ref

\* The object updatedGraph names: a fresh one (line 8).
CloneRef(ref) == "updatedGraph"

\* edge.flow[timePeriod] || 0.2
FlowRate(edge, timePeriod) ==
  IF Falsy(edge.flow[timePeriod]) THEN DefaultFlowRate ELSE edge.flow[timePeriod]

\* edge.distance * (1 + flowRate)
EdgeWeight(edge, timePeriod) == edge.distance * (One + FlowRate(edge, timePeriod))

\* Reading edge.flow[timePeriod] of an edge without flow throws a TypeError.
Throws(edge) == edge.flow = NoFlow

\* Index of the first edge whose callback throws; Len + 1 when none does.
RECURSIVE FirstThrow(_, _)
FirstThrow(edges, i) ==
  IF i > Len(edges) \/ Throws(edges[i]) THEN i ELSE FirstThrow(edges, i + 1)

\* updatedGraph.edges.forEach(...): the edges before the first throwing one
\* get their weight, the others are left as they are.
ForEachWeight(edges, timePeriod) ==
  LET stop == FirstThrow(edges, 1) IN
  [i \in 1..Len(edges) |->
     IF i < stop THEN [edges[i] EXCEPT !.weight = EdgeWeight(edges[i], timePeriod)]
     ELSE edges[i]]

\* ------------------------------------------------------ dijkstra
NodeIds(graph) == {graph.nodes[i].id : i \in 1..Len(graph.nodes)}

\* An id that no node of graph has.
NoSuchId(graph) == Len(graph.nodes) + 1

\* Variant of InitTables: the start node's dist is not set to 0.
InitTablesNoStart(start, graph) ==
  [dist |-> [id \in NodeIds(graph) |-> Infinity],
   prev |-> [id \in NodeIds(graph) |-> Null],
   unvisited |-> [i \in 1..Len(graph.nodes) |-> graph.nodes[i].id]]

\* Lines 25-34: the tables; unvisited is a Set, iterated in insertion order.
InitTables(start, graph) ==
  [dist |-> [id \in NodeIds(graph) |-> IF id = start THEN 0 ELSE Infinity],
   prev |-> [id \in NodeIds(graph) |-> Null],
   unvisited |-> [i \in 1..Len(graph.nodes) |-> graph.nodes[i].id]]

\* Lines 39-44: the first unvisited id of minimum dist, null when none.
RECURSIVE MinNode(_, _, _, _)
MinNode(unvisited, dist, i, minNodeId) ==
  IF i > Len(unvisited) THEN minNodeId
  ELSE MinNode(unvisited, dist, i + 1,
               IF minNodeId = Null \/ Lt(dist[unvisited[i]], dist[minNodeId])
               THEN unvisited[i] ELSE minNodeId)

Has(unvisited, id) == \E i \in 1..Len(unvisited) : unvisited[i] = id

Delete(unvisited, id) == SelectSeq(unvisited, LAMBDA v : v # id)

\* Variant of RelaxEdge: the tables are written without comparing newDist.
RelaxEdgeAlways(edge, minNodeId, t) ==
  IF ~Has(t.unvisited, edge.to) THEN t
  ELSE LET newDist == Plus(t.dist[minNodeId], edge.weight) IN
       [t EXCEPT !.dist[edge.to] = newDist, !.prev[edge.to] = minNodeId]

\* Variant of RelaxEdge: dist is updated, prev is not.
RelaxEdgeNoPrev(edge, minNodeId, t) ==
  IF ~Has(t.unvisited, edge.to) THEN t
  ELSE LET newDist == Plus(t.dist[minNodeId], edge.weight) IN
       IF Lt(newDist, t.dist[edge.to])
       THEN [t EXCEPT !.dist[edge.to] = newDist]
       ELSE t

\* Lines 54-61: one edge of the forEach.
RelaxEdge(edge, minNodeId, t) ==
  IF ~Has(t.unvisited, edge.to) THEN t
  ELSE LET newDist == Plus(t.dist[minNodeId], edge.weight) IN
       IF Lt(newDist, t.dist[edge.to])
       THEN [t EXCEPT !.dist[edge.to] = newDist, !.prev[edge.to] = minNodeId]
       ELSE t

\* Variant of Relax: every edge is relaxed, not only those leaving minNodeId.
RECURSIVE RelaxAnyEdge(_, _, _, _)
RelaxAnyEdge(edges, i, minNodeId, t) ==
  IF i > Len(edges) THEN t
  ELSE RelaxAnyEdge(edges, i + 1, minNodeId, RelaxEdge(edges[i], minNodeId, t))

\* Lines 52-62: the edges leaving minNodeId, in list order.
RECURSIVE Relax(_, _, _, _)
Relax(edges, i, minNodeId, t) ==
  IF i > Len(edges) THEN t
  ELSE Relax(edges, i + 1, minNodeId,
             IF edges[i].from = minNodeId THEN RelaxEdge(edges[i], minNodeId, t) ELSE t)

\* Lines 37-63: the search loop.
RECURSIVE Search(_, _, _)
Search(end, graph, t) ==
  IF Len(t.unvisited) = 0 THEN t
  ELSE LET minNodeId == MinNode(t.unvisited, t.dist, 1, Null) IN
       IF minNodeId = Null \/ t.dist[minNodeId] = Infinity THEN t
       ELSE LET u == [t EXCEPT !.unvisited = Delete(t.unvisited, minNodeId)] IN
            IF minNodeId = end THEN u
            ELSE Search(end, graph, Relax(graph.edges, 1, minNodeId, u))

\* prev[current]: undefined for a key prev does not have.
PrevOf(prev, current) == IF current \in DOMAIN prev THEN prev[current] ELSE Undefined

\* Longest array the back-walk may build before the engine aborts the call;
\* a walk over real nodes needs at most one entry per node.
ArrayLimit(graph) == Len(graph.nodes) + 2

\* Lines 66-72: the back-walk.  The loop ends only on null.
RECURSIVE Walk(_, _, _, _)
Walk(prev, current, path, limit) ==
  IF current = Null THEN [path |-> path, aborted |-> FALSE]
  ELSE IF Len(path) >= limit THEN [path |-> path, aborted |-> TRUE]
  ELSE Walk(prev, PrevOf(prev, current), <<current>> \o path, limit)

\* graph.edges.find(e => e.from === from && e.to === to): index, 0 when none.
RECURSIVE Find(_, _, _, _)
Find(edges, i, from, to) ==
  IF i > Len(edges) THEN 0
  ELSE IF edges[i].from = from /\ edges[i].to = to THEN i
  ELSE Find(edges, i + 1, from, to)

\* Lines 75-80.
RECURSIVE TotalDistance(_, _, _)
TotalDistance(path, i, graph) ==
  IF i > Len(path) - 1 THEN 0
  ELSE LET e == Find(graph.edges, 1, path[i], path[i + 1]) IN
       (IF e # 0 THEN graph.edges[e].distance ELSE 0) + TotalDistance(path, i + 1, graph)

\* nodeMap.get(id): the last node of that id.
RECURSIVE NodeMapGet(_, _, _)
NodeMapGet(nodes, i, id) ==
  IF i = 0 THEN [id |-> Undefined, x |-> Undefined]
  ELSE IF nodes[i].id = id THEN nodes[i]
  ELSE NodeMapGet(nodes, i - 1, id)

NoPath ==
  [outcome |-> "return", path |-> << >>, totalWeight |-> Infinity,
   totalDistance |-> 0, pathNodes |-> << >>]

\* The call never returns: the path array grows until the engine gives up.
Aborted ==
  [outcome |-> "abort", path |-> << >>, totalWeight |-> Infinity,
   totalDistance |-> 0, pathNodes |-> << >>]

\* Lines 23-96.
dijkstra(start, end, graph) ==
  LET t == Search(end, graph, InitTables(start, graph))
      w == Walk(t.prev, end, << >>, ArrayLimit(graph))
      path == w.path
  IN IF w.aborted THEN Aborted
     ELSE IF Len(path) = 0 \/ path[1] # start THEN NoPath
     ELSE [outcome |-> "return",
           path |-> path,
           totalWeight |-> t.dist[end],
           totalDistance |-> TotalDistance(path, 1, graph),
           pathNodes |-> [i \in 1..Len(path) |-> NodeMapGet(graph.nodes, Len(graph.nodes), path[i])]]

\* ------------------------------------------------------ state
VARIABLES
  heap,        \* the graph objects: the caller's ("graph") and the copy ("updatedGraph")
  weighted,    \* the object the caller passes to dijkstra; "none" before there is one
  op,          \* the last call: "none", "initEdgeWeights" or "dijkstra"
  timePeriod,  \* argument of the last initEdgeWeights call
  start,       \* arguments of the last dijkstra call
  end,
  outcome,     \* how the last call ended: "idle", "returned", "threw" or "aborted"
  result       \* what the last dijkstra call returned

vars == <<heap, weighted, op, timePeriod, start, end, outcome, result>>

\* The caller holds a raw graph.
Init ==
  /\ \E g \in RawGraphs : heap = [graph |-> g, updatedGraph |-> EmptyGraph]
  /\ weighted = "none"
  /\ op = "none"
  /\ timePeriod = "none"
  /\ start = Null
  /\ end = Null
  /\ outcome = "idle"
  /\ result = NoPath

\* The caller holds a graph whose edges already carry their weight.
SolverInit ==
  /\ \E g \in WeightedGraphs : heap = [graph |-> g, updatedGraph |-> EmptyGraph]
  /\ weighted = "graph"
  /\ op = "none"
  /\ timePeriod = "none"
  /\ start = Null
  /\ end = Null
  /\ outcome = "idle"
  /\ result = NoPath

\* Lines 7-14: initEdgeWeights(heap.graph, period).
initEdgeWeights(period) ==
  LET ref == CloneRef("graph")
      copied == [heap EXCEPT ![ref] = JSONCopy(heap["graph"])]
      edges == copied[ref].edges
      threw == FirstThrow(edges, 1) <= Len(edges)
  IN /\ heap' = [copied EXCEPT ![ref].edges = ForEachWeight(edges, period)]
     /\ weighted' = IF threw THEN "none" ELSE ref
     /\ outcome' = IF threw THEN "threw" ELSE "returned"
     /\ op' = "initEdgeWeights"
     /\ timePeriod' = period
     /\ start' = Null
     /\ end' = Null
     /\ result' = NoPath

\* Lines 23-96: dijkstra(s, e, heap[weighted]).
Dijkstra(s, e) ==
  /\ weighted # "none"
  /\ LET r == dijkstra(s, e, heap[weighted]) IN
       /\ result' = r
       /\ outcome' = IF r.outcome = "abort" THEN "aborted" ELSE "returned"
  /\ op' = "dijkstra"
  /\ start' = s
  /\ end' = e
  /\ UNCHANGED <<heap, weighted, timePeriod>>

\* A call that was aborted never came back to the caller.
CallInitEdgeWeights ==
  /\ outcome # "aborted"
  /\ \E period \in Periods : initEdgeWeights(period)

\* One query per weighted graph the caller holds: a second query on the same
\* object would start from the very same heap, dijkstra writing none of it.
CallDijkstra ==
  /\ op # "dijkstra"
  /\ \E s, e \in NodeIds(heap["graph"]) \cup {NoSuchId(heap["graph"])} : Dijkstra(s, e)

Next == CallInitEdgeWeights \/ CallDijkstra

SolverNext == CallDijkstra

Spec == Init /\ [][Next]_vars

SolverSpec == SolverInit /\ [][SolverNext]_vars

\* ------------------------------------------------------ reference notions
\* The graph the last dijkstra call was given.
Given == heap[weighted]

Returned == op = "dijkstra" /\ outcome = "returned"

EdgeSet(graph) == {graph.edges[i] : i \in 1..Len(graph.edges)}

\* The least element of a non-empty set of numbers and Infinity.
Least(S) == CHOOSE x \in S : \A y \in S : ~Lt(y, x)

\* Cheapest[v]: the least weight of a walk of at most k edges from s to v.
RECURSIVE Cheapest(_, _, _)
Cheapest(graph, s, k) ==
  IF k = 0 THEN [v \in NodeIds(graph) |-> IF v = s THEN 0 ELSE Infinity]
  ELSE LET d == Cheapest(graph, s, k - 1) IN
       [v \in NodeIds(graph) |->
          Least({d[v]} \cup {Plus(d[e.from], e.weight) : e \in {x \in EdgeSet(graph) : x.to = v}})]

\* The minimum, over all directed paths from s to e, of the sum of the weights.
MinPathWeight(graph, s, e) == Cheapest(graph, s, Len(graph.nodes))[e]

\* The nodes some directed path of at most k edges leads to from the set S.
RECURSIVE ReachedFrom(_, _, _)
ReachedFrom(graph, S, k) ==
  IF k = 0 THEN S
  ELSE ReachedFrom(graph, S \cup {x.to : x \in {y \in EdgeSet(graph) : y.from \in S}}, k - 1)

Reachable(graph, s, e) == e \in ReachedFrom(graph, {s}, Len(graph.nodes))

BothNodes == start \in NodeIds(Given) /\ end \in NodeIds(Given)

\* ------------------------------------------------------ claims

C2_MissingNodeTolerated ==
  (op = "dijkstra" /\ ~BothNodes) => (outcome = "returned" /\ result = NoPath)

\* C3: for start and end nodes of the graph the no-path result is returned
\* exactly when no directed path leads from start to end; otherwise the path
\* is non-empty and totalWeight finite.
C3_NoPathIffUnreachable ==
  (Returned /\ BothNodes) =>
    /\ (result = NoPath) <=> ~Reachable(Given, start, end)
    /\ Reachable(Given, start, end) => (Len(result.path) > 0 /\ result.totalWeight # Infinity)
    /\ (Len(result.path) = 0) <=> (result.totalWeight = Infinity)

\* end is not reachable although an edge leaves start and one leads from end
\* to start.
C3_Witness ==
  /\ Returned /\ BothNodes /\ result = NoPath
  /\ \E x \in EdgeSet(Given) : x.from = start /\ x.to # start
  /\ \E x \in EdgeSet(Given) : x.from = end /\ x.to = start

\* The coefficient the flow mapping holds for the period, 0.2 when it holds none.
Coefficient(edge, period) ==
  IF edge.flow[period] # Undefined THEN edge.flow[period] ELSE DefaultFlowRate

\* C4: every edge of the returned graph has weight distance * (1 + c), c the
\* coefficient the mapping holds for the period (0 included), 0.2 only when
\* it holds none.
C4_WeightFormula ==
  (op = "initEdgeWeights" /\ outcome = "returned") =>
    \A i \in 1..Len(heap[weighted].edges) :
      heap[weighted].edges[i].weight =
        heap["graph"].edges[i].distance * (One + Coefficient(heap["graph"].edges[i], timePeriod))

\* The raw graph with the coefficient of edge i for the period set to c.
Raise(graph, i, period, c) == [graph EXCEPT !.edges[i].flow[period] = c]

\* What initEdgeWeights returns for a graph none of whose edges throws.
WeightedCopy(graph, period) ==
  [JSONCopy(graph) EXCEPT !.edges = ForEachWeight(graph.edges, period)]

\* C5: raising one edge's coefficient for the period never lowers totalWeight.
C5_Monotone ==
  (Returned /\ timePeriod \in Periods) =>
    \A i \in 1..Len(heap["graph"].edges) : \A c \in Coefficients :
      (heap["graph"].edges[i].flow[timePeriod] # Undefined /\ c > heap["graph"].edges[i].flow[timePeriod])
        => ~Lt(dijkstra(start, end, WeightedCopy(Raise(heap["graph"], i, timePeriod, c), timePeriod)).totalWeight,
               result.totalWeight)

\* C6: initEdgeWeights never fails, whatever the edges' flow mappings: it
\* returns, and an edge without a coefficient for the period is weighted
\* with 0.2.
C6_NeverFails ==
  op = "initEdgeWeights" =>
    /\ outcome = "returned"
    /\ \A i \in 1..Len(heap["graph"].edges) :
         (heap["graph"].edges[i].flow = NoFlow \/ heap["graph"].edges[i].flow[timePeriod] = Undefined)
           => heap[weighted].edges[i].weight = heap["graph"].edges[i].distance * (One + DefaultFlowRate)

\* C7: dijkstra(s, s, graph) for a node s returns path [s], totalWeight 0,
\* totalDistance 0 and the node record of s.
C7_StartIsEnd ==
  (op = "dijkstra" /\ start = end /\ start \in NodeIds(Given)) =>
    /\ outcome = "returned"
    /\ result.path = <<start>>
    /\ result.totalWeight = 0
    /\ result.totalDistance = 0
    /\ Len(result.pathNodes) = 1
    /\ \E k \in 1..Len(Given.nodes) : Given.nodes[k].id = start /\ result.pathNodes[1] = Given.nodes[k]

\* s has a zero-weight self-loop and an edge to another node.
C7_Witness ==
  /\ Returned /\ start = end /\ start \in NodeIds(Given)
  /\ \E x \in EdgeSet(Given) : x.from = start /\ x.to = start /\ x.weight = 0
  /\ \E x \in EdgeSet(Given) : x.from = start /\ x.to # start

\* C8: no call writes the caller's graph, and dijkstra writes no graph at all.
C8_InputsUnchanged ==
  [][heap'["graph"] = heap["graph"] /\ (op' = "dijkstra" => heap' = heap)]_vars

\* A query ran on the weighted copy while the caller's edges carry no weight.
C8_Witness ==
  /\ Returned /\ weighted = "updatedGraph"
  /\ Len(heap["graph"].edges) > 0
  /\ \A i \in 1..Len(heap["graph"].edges) :
       heap["graph"].edges[i].weight = Undefined /\ heap["updatedGraph"].edges[i].weight # Undefined

\* The (weight, distance) totals of the choices of one edge per consecutive
\* pair of path, from position i on.
RECURSIVE Totals(_, _, _)
Totals(graph, path, i) ==
  IF i > Len(path) - 1 THEN {<<0, 0>>}
  ELSE {<<x.weight + t[1], x.distance + t[2]>> :
          x \in {y \in EdgeSet(graph) : y.from = path[i] /\ y.to = path[i + 1]},
          t \in Totals(graph, path, i + 1)}

\* C9: totalWeight and totalDistance of a non-empty path are the totals of
\* one and the same choice of edges along it.
C9_TotalsAlongSamePath ==
  (Returned /\ Len(result.path) > 0) =>
    <<result.totalWeight, result.totalDistance>> \in Totals(Given, result.path, 1)

\* C10: a non-empty path for start and end nodes begins with start, ends with
\* end, repeats no id, follows an edge at every step, and pathNodes holds the
\* node record of every id of it.
C10_PathWellFormed ==
  (Returned /\ BothNodes /\ Len(result.path) > 0) =>
    LET path == result.path IN
    /\ path[1] = start
    /\ path[Len(path)] = end
    /\ \A i, j \in 1..Len(path) : path[i] = path[j] => i = j
    /\ \A i \in 1..(Len(path) - 1) :
         \E x \in EdgeSet(Given) : x.from = path[i] /\ x.to = path[i + 1]
    /\ Len(result.pathNodes) = Len(path)
    /\ \A i \in 1..Len(path) :
         /\ result.pathNodes[i].id = path[i]
         /\ \E k \in 1..Len(Given.nodes) : result.pathNodes[i] = Given.nodes[k]

\* A path over two edges.
C10_Witness ==
  /\ Returned /\ BothNodes /\ Len(result.path) = 3
  /\ result.totalDistance = 2
====
